---- MODULE Spec2Model ----
(***************************************************************************)
(* apollo-helpers: compileGraphqlResources (src/compile-graphql-resources) *)
(* and createExecutor (src/create-executor), over a JavaScript heap.       *)
(*                                                                         *)
(* A JavaScript value is a record [t, v]: t is its type tag and v either   *)
(* the identity of a primitive/function or, for t = "object", the address  *)
(* of a heap cell.  A heap cell is [class, p]: class "Object" (p maps own  *)
(* enumerable keys to values) or "Array" (p is the sequence of elements).  *)
(* Two objects are the same reference iff their addresses are equal.       *)
(***************************************************************************)
EXTENDS Integers, Sequences, FiniteSets, TLC

VARIABLES
  heap,        \* the JavaScript heap: a sequence of cells, address = index
  input,       \* the heap as the caller built it, before any library call
  modules,     \* the value the caller passes to compile / createExecutor
  pc,          \* "start" | "compiled" | "executor"
  typeDefs,    \* resources.typeDefs (value)
  resolvers,   \* resources.resolvers (value)
  getContexts, \* the functions R.juxt closed over, in order
  ctxCalls,    \* log of context-function invocations: <<[call, fn, args]>>
  ctxReturn,   \* outcome of the latest getContext call
  nGetContext, \* number of getContext calls made so far
  schema,      \* the schema makeExecutableSchema returned (value)
  nBuild,      \* number of makeExecutableSchema invocations
  calls        \* the run / subscribe calls made on the executor, in order

----------------------------------------------------------------------------
(* Bounds *)

MaxModules == 3
MaxGetContext == 2
MaxExecModules == 2
MaxCalls == 2
MaxResults == 2

----------------------------------------------------------------------------
(* JavaScript values *)

Undefined == [t |-> "undefined", v |-> 0]
Null == [t |-> "null", v |-> 0]
Str(n) == [t |-> "string", v |-> n]
Fn(n) == [t |-> "function", v |-> n]
Ref(a) == [t |-> "object", v |-> a]
Err(n) == [t |-> "error", v |-> n]

EmptyMap == [k \in {} |-> Undefined]
NewObject(p) == [class |-> "Object", p |-> p]
NewArray(s) == [class |-> "Array", p |-> s]

\* the order in which own keys are enumerated (insertion order in the inputs)
KeyOrder ==
  << "schema", "resolvers", "context",
     "Query", "Mutation", "a", "b", "subscribe", "resolve",
     "user", "db", "req", "x", "y", "yet",
     "contextArg", "contextValue", "rootValue", "operationName",
     "variableValues", "document" >>

KeySeq(S) == SelectSeq(KeyOrder, LAMBDA k : k \in S)

Alloc(h, cell) == [h |-> Append(h, cell), v |-> Ref(Len(h) + 1)]

\* "const v = e; F(v)": e is evaluated once and F sees its value
With(e, F(_)) == CHOOSE y \in {F(v) : v \in {e}} : TRUE

\* R.isNil
isNil(x) == x.t \in {"undefined", "null"}

\* R.is(Array)
isArray(h, x) == x.t = "object" /\ h[x.v].class = "Array"

\* Ramda's _isObject: Object.prototype.toString.call(x) === '[object Object]'
isObject(h, x) == x.t = "object" /\ h[x.v].class = "Object"

\* own enumerable keys of a value, as Object.assign and for-in see them
OwnKeys(h, x) == IF isObject(h, x) THEN DOMAIN h[x.v].p ELSE {}

\* R.prop(k, x)
prop(h, k, x) == IF k \in OwnKeys(h, x) THEN h[x.v].p[k] ELSE Undefined

\* the elements of an array value
Elements(h, x) == h[x.v].p

----------------------------------------------------------------------------
(* Ramda and Object.assign *)

\* R.pluck(k): map(prop(k)) over a list
pluck(h, k, list) == [i \in 1..Len(list) |-> prop(h, k, list[i])]

\* a variant that also drops repeated elements (R.uniq after the reject)
RECURSIVE uniq(_, _)
uniq(list, seen) ==
  IF list = << >> THEN << >>
  ELSE IF Head(list) \in seen THEN uniq(Tail(list), seen)
  ELSE << Head(list) >> \o uniq(Tail(list), seen \cup {Head(list)})
rejectNilUniq(list) == uniq(SelectSeq(list, LAMBDA x : ~isNil(x)), {})

\* R.reject(R.isNil)
rejectNil(list) == SelectSeq(list, LAMBDA x : ~isNil(x))

\* Object.assign(target, ...sources): copies each source's own enumerable
\* keys onto the target cell, in order; later sources overwrite
RECURSIVE ObjectAssign(_, _, _)
ObjectAssign(h, target, sources) ==
  IF sources = << >> THEN h
  ELSE LET s == Head(sources)
           ks == OwnKeys(h, s)
           old == h[target.v].p
           new == [k \in DOMAIN old \cup ks |->
                     IF k \in ks THEN h[s.v].p[k] ELSE old[k]]
       IN ObjectAssign([h EXCEPT ![target.v].p = new], target, Tail(sources))

\* R.mergeAll(list): Object.assign.apply(null, [{}].concat(list)).  The
\* argument is a list, or (when the curried juxt returned a function) a
\* single non-array value that concat appends as one element.
mergeAll(h, list) ==
  LET t == Alloc(h, NewObject(EmptyMap))
  IN [h |-> ObjectAssign(t.h, t.v, list), v |-> t.v]

\* R.mergeDeepRight(l, r): a fresh object with the keys of both; a key of
\* both whose two values are plain objects is merged recursively, any other
\* key of r takes r's value, and a key of l alone keeps l's value.
RECURSIVE mergeDeepRight(_, _, _)
RECURSIVE mergeKeys(_, _, _, _, _)

\* variants of the key loop: left-biased on a conflict (R.mergeDeepLeft),
\* and without the recursion into plain objects (R.mergeRight)
RECURSIVE mergeKeysLeft(_, _, _, _, _)
mergeKeysLeft(h, res, l, r, ks) ==
  IF ks = << >> THEN h
  ELSE LET k == Head(ks)
           inL == k \in OwnKeys(h, l)
           inR == k \in OwnKeys(h, r)
           lv == prop(h, k, l)
           rv == prop(h, k, r)
       IN IF inL /\ inR /\ isObject(h, lv) /\ isObject(h, rv)
          THEN With(mergeDeepRight(h, lv, rv), LAMBDA m :
                 mergeKeysLeft([m.h EXCEPT ![res.v].p = (k :> m.v) @@ @],
                               res, l, r, Tail(ks)))
          ELSE mergeKeysLeft([h EXCEPT ![res.v].p = (k :> (IF inL THEN lv ELSE rv)) @@ @],
                             res, l, r, Tail(ks))

RECURSIVE mergeKeysShallow(_, _, _, _, _)
mergeKeysShallow(h, res, l, r, ks) ==
  IF ks = << >> THEN h
  ELSE LET k == Head(ks)
           v == IF k \in OwnKeys(h, r) THEN prop(h, k, r) ELSE prop(h, k, l)
       IN mergeKeysShallow([h EXCEPT ![res.v].p = (k :> v) @@ @], res, l, r, Tail(ks))

mergeKeys(h, res, l, r, ks) ==
  IF ks = << >> THEN h
  ELSE LET k == Head(ks)
           inL == k \in OwnKeys(h, l)
           inR == k \in OwnKeys(h, r)
           lv == prop(h, k, l)
           rv == prop(h, k, r)
       IN IF inL /\ inR /\ isObject(h, lv) /\ isObject(h, rv)
          THEN With(mergeDeepRight(h, lv, rv), LAMBDA m :
                 mergeKeys([m.h EXCEPT ![res.v].p = (k :> m.v) @@ @],
                           res, l, r, Tail(ks)))
          ELSE mergeKeys([h EXCEPT ![res.v].p = (k :> (IF inR THEN rv ELSE lv)) @@ @],
                         res, l, r, Tail(ks))

\* a variant that merges r into l itself instead of into a fresh object
mergeDeepRightInPlace(h, l, r) ==
  [h |-> mergeKeys(h, l, l, r, KeySeq(OwnKeys(h, l) \cup OwnKeys(h, r))), v |-> l]

mergeDeepRight(h, l, r) ==
  LET t == Alloc(h, NewObject(EmptyMap))
  IN [h |-> mergeKeys(t.h, t.v, l, r, KeySeq(OwnKeys(h, l) \cup OwnKeys(h, r))),
      v |-> t.v]

\* R.reduce(R.mergeDeepRight, {})
RECURSIVE reduceMerge(_, _, _)
reduceMerge(h, acc, list) ==
  IF list = << >> THEN [h |-> h, v |-> acc]
  ELSE With(mergeDeepRight(h, acc, Head(list)), LAMBDA m :
         reduceMerge(m.h, m.v, Tail(list)))

----------------------------------------------------------------------------
(* The caller's inputs: module descriptors, context functions, arguments *)

\* A template is a value not yet laid out in the heap: [t, v, m], where m
\* maps the keys of an object template to templates.  A "resolver" template
\* becomes a function of its own for each module that is built from it.
TStr(n) == [t |-> "string", v |-> n, m |-> EmptyMap]
TNull == [t |-> "null", v |-> 0, m |-> EmptyMap]
TFn(n) == [t |-> "function", v |-> n, m |-> EmptyMap]
TResolver(n) == [t |-> "resolver", v |-> n, m |-> EmptyMap]
TObj(m) == [t |-> "object", v |-> 0, m |-> m]

\* the resolver function n of the module at position i
ResolverFn(i, n) == Fn(100 * i + n)

RECURSIVE AllocT(_, _, _)
RECURSIVE AllocProps(_, _, _, _, _)

AllocProps(h, m, ks, i, acc) ==
  IF ks = << >> THEN [h |-> h, p |-> acc]
  ELSE With(AllocT(h, m[Head(ks)], i), LAMBDA c :
         AllocProps(c.h, m, Tail(ks), i, (Head(ks) :> c.v) @@ acc))

AllocT(h, tmpl, i) ==
  CASE tmpl.t = "object" ->
         With(AllocProps(h, tmpl.m, KeySeq(DOMAIN tmpl.m), i, EmptyMap),
              LAMBDA ps : Alloc(ps.h, NewObject(ps.p)))
    [] tmpl.t = "resolver" -> [h |-> h, v |-> ResolverFn(i, tmpl.v)]
    [] OTHER -> [h |-> h, v |-> [t |-> tmpl.t, v |-> tmpl.v]]

\* context functions, by identity
CtxA == 1        \* req => ctxA             (a constant object)
CtxB == 2        \* req => ctxB
CtxEcho == 3     \* req => ({ req })
CtxThrow == 4    \* req => { throw e }
CtxTwo == 5      \* (req, res) => ctxA      (declares two parameters)
CtxZero == 6     \* () => ctxB              (declares none)
JuxtCurried == 9 \* the partially applied function curryN hands back

ContextError == Err(1)

\* objects the context functions close over, at the bottom of the heap
EnvHeap ==
  << NewObject("x" :> Str(11)),
     NewObject("y" :> Str(12)),
     NewObject(("user" :> Str(1)) @@ ("db" :> Ref(1))),
     NewObject(("user" :> Str(2)) @@ ("db" :> Ref(2)) @@ ("yet" :> Str(3))) >>
CtxAObject == Ref(3)
CtxBObject == Ref(4)

\* Function.prototype.length of a context function
FnLength(f) ==
  CASE f.v = CtxTwo -> 2
    [] f.v = CtxZero -> 0
    [] OTHER -> 1

\* calling context function f with the argument list args
callContext(h, f, args) ==
  LET a == IF Len(args) >= 1 THEN args[1] ELSE Undefined
  IN CASE f.v \in {CtxA, CtxTwo} -> [h |-> h, threw |-> FALSE, v |-> CtxAObject]
       [] f.v \in {CtxB, CtxZero} -> [h |-> h, threw |-> FALSE, v |-> CtxBObject]
       [] f.v = CtxEcho ->
            LET o == Alloc(h, NewObject("req" :> a))
            IN [h |-> o.h, threw |-> FALSE, v |-> o.v]
       [] OTHER -> [h |-> h, threw |-> TRUE, v |-> ContextError]

\* the module descriptors a caller may pass
Descriptor(m) == TObj(m)
Catalogue ==
  << Descriptor(EmptyMap),
     Descriptor("schema" :> TStr(1)),
     Descriptor("schema" :> TStr(2)),
     Descriptor("schema" :> TNull),
     Descriptor(("schema" :> TStr(1))
                @@ ("resolvers" :> TObj("Query" :> TObj("a" :> TResolver(1))))
                @@ ("context" :> TFn(CtxA))),
     Descriptor("resolvers" :> TObj("Query" :> TObj("b" :> TResolver(2)))),
     Descriptor("resolvers" :>
                TObj("Query" :> TObj("a" :> TObj("subscribe" :> TResolver(3))))),
     Descriptor("resolvers" :>
                TObj("Query" :> TObj("a" :> TObj("resolve" :> TResolver(4))))),
     Descriptor("resolvers" :> TObj("Query" :> TResolver(5))),
     Descriptor("resolvers" :> TObj("Mutation" :> TObj("a" :> TResolver(6)))),
     Descriptor("context" :> TFn(CtxB)),
     Descriptor("context" :> TFn(CtxEcho)),
     Descriptor("context" :> TFn(CtxThrow)),
     Descriptor("context" :> TFn(CtxTwo)),
     Descriptor("context" :> TFn(CtxZero)) >>

\* the argument lists a caller may give getContext: none, or one request
CallerArgs == {<< >>, << Str(7) >>}

\* lay the descriptors ds[i..] out in the heap; vs collects their references
RECURSIVE AllocModules(_, _, _, _)
AllocModules(h, ds, i, vs) ==
  IF i > Len(ds) THEN [h |-> h, vs |-> vs]
  ELSE With(AllocT(h, Catalogue[ds[i]], i), LAMBDA d :
         AllocModules(d.h, ds, i + 1, Append(vs, d.v)))

----------------------------------------------------------------------------
(* compileGraphqlResources *)

\* a variant that makes an empty list of anything that is not an array
arrifyFrom(h, x) ==
  IF isArray(h, x) THEN [h |-> h, v |-> x] ELSE Alloc(h, NewArray(<< >>))

\* R.ifElse(R.is(Array), R.identity, R.of)
arrify(h, x) ==
  IF isArray(h, x) THEN [h |-> h, v |-> x] ELSE Alloc(h, NewArray(<< x >>))

\* R.applySpec({typeDefs, resolvers, getContexts}) after arrify
compileGraphqlResources(h, mods) ==
  With(arrify(h, mods), LAMBDA arr :
  With(Elements(arr.h, arr.v), LAMBDA list :
  With(Alloc(arr.h, NewArray(rejectNil(pluck(arr.h, "schema", list)))), LAMBDA td :
  With(Alloc(td.h, NewObject(EmptyMap)), LAMBDA e :
  With(reduceMerge(e.h, e.v, rejectNil(pluck(e.h, "resolvers", list))), LAMBDA rs :
    [h |-> rs.h, typeDefs |-> td.v, resolvers |-> rs.v,
     getContexts |-> rejectNil(pluck(rs.h, "context", list))])))))

\* R.juxt(fns) is curryN(n, ...) with n the largest declared length
RECURSIVE juxtLength(_)
juxtLength(fns) ==
  IF fns = << >> THEN 0
  ELSE LET n == juxtLength(Tail(fns))
           m == FnLength(Head(fns))
       IN IF m > n THEN m ELSE n

\* the body juxt wraps: apply every function to args, in order, and collect
\* the results; an exception leaves at once
RECURSIVE applyEach(_, _, _, _, _)
applyEach(h, fns, args, vs, log) ==
  IF fns = << >>
  THEN [h |-> h, threw |-> FALSE, curried |-> FALSE, vs |-> vs, calls |-> log]
  ELSE With(callContext(h, Head(fns), args), LAMBDA c :
       With(Append(log, [fn |-> Head(fns), args |-> args]), LAMBDA log2 :
         IF c.threw
         THEN [h |-> c.h, threw |-> TRUE, curried |-> FALSE, vs |-> << c.v >>,
               calls |-> log2]
         ELSE applyEach(c.h, Tail(fns), args, Append(vs, c.v), log2)))

\* resources.getContexts(...args): the curried juxt.  Given fewer arguments
\* than its length it returns a partially applied function and calls nothing.
juxt(h, fns, args) ==
  IF Len(args) < juxtLength(fns)
  THEN [h |-> h, threw |-> FALSE, curried |-> TRUE, vs |-> << Fn(JuxtCurried) >>,
        calls |-> << >>]
  ELSE applyEach(h, fns, args, << >>, << >>)

\* getContext: req => R.mergeAll(resources.getContexts(req))
getContext(h, fns, callerArgs) ==
  With(IF callerArgs = << >> THEN Undefined ELSE callerArgs[1], LAMBDA req :
  With(juxt(h, fns, << req >>), LAMBDA r :
    IF r.threw
    THEN [h |-> r.h, threw |-> TRUE, v |-> r.vs[1], calls |-> r.calls, arg |-> req]
    ELSE With(mergeAll(r.h, r.vs), LAMBDA m :
           [h |-> m.h, threw |-> FALSE, v |-> m.v, calls |-> r.calls, arg |-> req])))

vars == << heap, input, modules, pc, typeDefs, resolvers, getContexts,
           ctxCalls, ctxReturn, nGetContext, schema, nBuild, calls >>

NoReturn == [given |-> << >>, threw |-> FALSE, v |-> Undefined]

\* the state when the caller has built its modules: up to max descriptors
\* drawn from the catalogue entries in choice, as an array or one bare
InitWith(max, choice) ==
  \E n \in 0..max : \E ds \in [1..n -> choice] :
  \E bare \in BOOLEAN :
    /\ bare => n = 1
    /\ \E a \in {AllocModules(EnvHeap, ds, 1, << >>)} :
       \E m \in {IF bare THEN [h |-> a.h, v |-> a.vs[1]]
                  ELSE Alloc(a.h, NewArray(a.vs))} :
          /\ heap = m.h
          /\ input = m.h
          /\ modules = m.v
    /\ pc = "start"
    /\ typeDefs = Undefined
    /\ resolvers = Undefined
    /\ getContexts = << >>
    /\ ctxCalls = << >>
    /\ ctxReturn = NoReturn
    /\ nGetContext = 0
    /\ schema = Undefined
    /\ nBuild = 0
    /\ calls = << >>

Init == InitWith(MaxModules, 1..Len(Catalogue))

\* const resources = compileGraphqlResources(modules)
Compile ==
  /\ pc = "start"
  /\ \E r \in {compileGraphqlResources(heap, modules)} :
        /\ heap' = r.h
        /\ typeDefs' = r.typeDefs
        /\ resolvers' = r.resolvers
        /\ getContexts' = r.getContexts
  /\ pc' = "compiled"
  /\ UNCHANGED << input, modules, ctxCalls, ctxReturn, nGetContext,
                  schema, nBuild, calls >>

\* graphqlResources.getContext(...callerArgs)
GetContext(callerArgs) ==
  /\ pc = "compiled"
  /\ nGetContext < MaxGetContext
  /\ \E r \in {getContext(heap, getContexts, callerArgs)} :
        /\ heap' = r.h
        /\ ctxReturn' = [given |-> callerArgs, threw |-> r.threw, v |-> r.v]
        /\ ctxCalls' = ctxCalls \o
             [i \in 1..Len(r.calls) |->
                [call |-> nGetContext + 1, fn |-> r.calls[i].fn, args |-> r.calls[i].args]]
  /\ nGetContext' = nGetContext + 1
  /\ UNCHANGED << input, modules, pc, typeDefs, resolvers, getContexts,
                  schema, nBuild, calls >>

----------------------------------------------------------------------------
(* createExecutor *)

\* the query texts a caller may pass, and what the parser makes of them
GoodQuery == 1
BadQuery == 2
Queries == {GoodQuery, BadQuery}
ParseError == Err(2)
SubscribeError == Err(3)
CallbackError == Err(4)
SequenceError == Err(5)

\* graphql's parse(query): a document, or a syntax error thrown
parse(q) ==
  IF q = BadQuery THEN [threw |-> TRUE, v |-> ParseError]
  ELSE [threw |-> FALSE, v |-> [t |-> "document", v |-> q]]

\* the graphqlOptions a caller may pass; 0 stands for leaving them out
OptionTemplates ==
  << TObj(("contextValue" :> TObj(("yet" :> TStr(31)) @@ ("user" :> TStr(32))))
          @@ ("contextArg" :> TStr(7))
          @@ ("rootValue" :> TStr(41))
          @@ ("operationName" :> TStr(42))
          @@ ("variableValues" :> TObj("x" :> TStr(43)))),
     TObj(("schema" :> TStr(51)) @@ ("document" :> TStr(52))
          @@ ("rootValue" :> TStr(44))) >>

\* makeExecutableSchema({ typeDefs, resolvers }): the schema remembers what
\* it was built from
makeExecutableSchema(h, td, rs) ==
  With(Alloc(h, NewObject(("typeDefs" :> td) @@ ("resolvers" :> rs))), LAMBDA arg :
    Alloc(arg.h, [class |-> "Schema", p |-> arg.h[arg.v.v].p]))

\* a variant of getOptions that merges the explicit contextValue last
getOptionsExplicitLast(h, fns, sch, q, opts) ==
  With(IF opts = Undefined THEN Alloc(h, NewObject(EmptyMap))
       ELSE [h |-> h, v |-> opts], LAMBDA go :
  With(getContext(go.h, fns, << prop(go.h, "contextArg", go.v) >>), LAMBDA c :
    IF c.threw
    THEN [h |-> c.h, threw |-> TRUE, v |-> c.v, ctx |-> Undefined, calls |-> c.calls]
    ELSE
  With(Alloc(c.h, NewObject(EmptyMap)), LAMBDA ctx :
  With(ObjectAssign(ctx.h, ctx.v, << c.v, prop(c.h, "contextValue", go.v) >>),
       LAMBDA h1 :
  With(parse(q), LAMBDA d :
    IF d.threw
    THEN [h |-> h1, threw |-> TRUE, v |-> d.v, ctx |-> c.v, calls |-> c.calls]
    ELSE
  With(Alloc(h1, NewObject(("schema" :> sch) @@ ("document" :> d.v)
                           @@ ("contextValue" :> ctx.v))), LAMBDA lit :
  With(Alloc(lit.h, NewObject(EmptyMap)), LAMBDA res :
    [h |-> ObjectAssign(res.h, res.v, << go.v, lit.v >>), threw |-> FALSE,
     v |-> res.v, ctx |-> c.v, calls |-> c.calls])))))))

\* a variant of getOptions that spreads the caller's options last
getOptionsCallerLast(h, fns, sch, q, opts) ==
  With(IF opts = Undefined THEN Alloc(h, NewObject(EmptyMap))
       ELSE [h |-> h, v |-> opts], LAMBDA go :
  With(getContext(go.h, fns, << prop(go.h, "contextArg", go.v) >>), LAMBDA c :
    IF c.threw
    THEN [h |-> c.h, threw |-> TRUE, v |-> c.v, ctx |-> Undefined, calls |-> c.calls]
    ELSE
  With(Alloc(c.h, NewObject(EmptyMap)), LAMBDA ctx :
  With(ObjectAssign(ctx.h, ctx.v, << prop(c.h, "contextValue", go.v), c.v >>),
       LAMBDA h1 :
  With(parse(q), LAMBDA d :
    IF d.threw
    THEN [h |-> h1, threw |-> TRUE, v |-> d.v, ctx |-> c.v, calls |-> c.calls]
    ELSE
  With(Alloc(h1, NewObject(("schema" :> sch) @@ ("document" :> d.v)
                           @@ ("contextValue" :> ctx.v))), LAMBDA lit :
  With(Alloc(lit.h, NewObject(EmptyMap)), LAMBDA res :
    [h |-> ObjectAssign(res.h, res.v, << lit.v, go.v >>), threw |-> FALSE,
     v |-> res.v, ctx |-> c.v, calls |-> c.calls])))))))

\* getOptions(query, graphqlOptions = {})
getOptions(h, fns, sch, q, opts) ==
  With(IF opts = Undefined THEN Alloc(h, NewObject(EmptyMap))
       ELSE [h |-> h, v |-> opts], LAMBDA go :
  With(getContext(go.h, fns, << prop(go.h, "contextArg", go.v) >>), LAMBDA c :
    IF c.threw
    THEN [h |-> c.h, threw |-> TRUE, v |-> c.v, ctx |-> Undefined, calls |-> c.calls]
    ELSE
  With(Alloc(c.h, NewObject(EmptyMap)), LAMBDA ctx :
  With(ObjectAssign(ctx.h, ctx.v, << prop(c.h, "contextValue", go.v), c.v >>),
       LAMBDA h1 :
  With(parse(q), LAMBDA d :
    IF d.threw
    THEN [h |-> h1, threw |-> TRUE, v |-> d.v, ctx |-> c.v, calls |-> c.calls]
    ELSE
  With(Alloc(h1, NewObject(("schema" :> sch) @@ ("document" :> d.v)
                           @@ ("contextValue" :> ctx.v))), LAMBDA lit :
  With(Alloc(lit.h, NewObject(EmptyMap)), LAMBDA res :
    [h |-> ObjectAssign(res.h, res.v, << go.v, lit.v >>), threw |-> FALSE,
     v |-> res.v, ctx |-> c.v, calls |-> c.calls])))))))

\* a run / subscribe call as the caller and the collaborators see it
CallRecord(kind, q, opts, h, o) ==
  [kind |-> kind, query |-> q,
   options |-> opts,                 \* what the caller passed
   optionsWas |-> IF opts = Undefined THEN NewObject(EmptyMap) ELSE h[opts.v],
   \* the call: "threw", or the state of the promise it returned
   st |-> IF o.threw THEN "threw" ELSE IF kind = "run" THEN "pending" ELSE "subscribing",
   err |-> IF o.threw THEN o.v ELSE Undefined,
   passed |-> IF o.threw THEN Undefined ELSE o.v, \* what the collaborator got
   ctx |-> o.ctx,                    \* what resources.getContext returned
   subscribed |-> "none",            \* the promise subscribe() returned
   seq |-> "none",                   \* the asynchronous sequence
   contextCalls |-> o.calls,
   produced |-> << >>,               \* the results the sequence has produced
   delivered |-> << >>]              \* the results callback was invoked with

\* a variant of runQuery that catches what getOptions throws and hands the
\* caller an error of its own
WrappedError == Err(9)
runQueryWrapping(h, fns, sch, q, opts) ==
  With(getOptions(h, fns, sch, q, opts), LAMBDA o :
    [h |-> o.h,
     rec |-> CallRecord("run", q, opts, h,
                        IF o.threw THEN [o EXCEPT !.v = WrappedError] ELSE o)])

\* a variant of runQuery that builds the schema anew for every call
runQueryRebuilding(h, fns, sch, q, opts) ==
  With(makeExecutableSchema(h, h[sch.v].p["typeDefs"], h[sch.v].p["resolvers"]),
       LAMBDA s :
  With(getOptions(s.h, fns, s.v, q, opts), LAMBDA o :
    [h |-> o.h, rec |-> CallRecord("run", q, opts, h, o)]))

\* runQuery: execute(getOptions(query, graphqlOptions))
runQuery(h, fns, sch, q, opts) ==
  With(getOptions(h, fns, sch, q, opts), LAMBDA o :
    [h |-> o.h, rec |-> CallRecord("run", q, opts, h, o)])

\* runSubscribe: subscribe(getOptions(query, graphqlOptions)).then(...)
runSubscribe(h, fns, sch, q, opts) ==
  With(getOptions(h, fns, sch, q, opts), LAMBDA o :
    [h |-> o.h, rec |-> CallRecord("subscribe", q, opts, h, o)])

\* a variant of the handler that invokes callback for every other step only
forAwaitEachStepSkipping(c, throws) ==
  [c EXCEPT !.delivered = IF Len(c.produced) = 2 THEN @
                          ELSE Append(@, c.produced[Len(c.produced)]),
            !.st = IF throws THEN "rejected" ELSE "iterating",
            !.err = IF throws THEN CallbackError ELSE @]

\* forAwaitEach's handler for a step that is not done: callback(step.value),
\* then next() again, or reject with what callback threw
forAwaitEachStep(c, throws) ==
  [c EXCEPT !.delivered = Append(@, c.produced[Len(c.produced)]),
            !.st = IF throws THEN "rejected" ELSE "iterating",
            !.err = IF throws THEN CallbackError ELSE @]

\* the k-th result the subscription of call c produces
ResultValue(c, k) == Str(1000 + 10 * c + k)

\* const executor = createExecutor(modules); the schema builder may refuse
\* the type definitions, and then there is no executor
CreateExecutor ==
  /\ pc = "start"
  /\ \E r \in {compileGraphqlResources(heap, modules)} :
     \E s \in {makeExecutableSchema(r.h, r.typeDefs, r.resolvers)} :
        \E ok \in BOOLEAN :
          /\ heap' = IF ok THEN s.h ELSE r.h
          /\ schema' = IF ok THEN s.v ELSE Undefined
          /\ pc' = IF ok THEN "executor" ELSE "failed"
          /\ typeDefs' = r.typeDefs
          /\ resolvers' = r.resolvers
          /\ getContexts' = r.getContexts
  /\ nBuild' = nBuild + 1
  /\ UNCHANGED << input, modules, ctxCalls, ctxReturn, nGetContext, calls >>

\* the caller builds its options (template o, 0 for none) and makes the call
CallerOptions(h, o) ==
  IF o = 0 THEN [h |-> h, v |-> Undefined] ELSE AllocT(h, OptionTemplates[o], 0)

LogCalls(r) ==
  ctxCalls \o [i \in 1..Len(r.rec.contextCalls) |->
                [call |-> nGetContext + 1, fn |-> r.rec.contextCalls[i].fn,
                 args |-> r.rec.contextCalls[i].args]]

\* executor.run(query, graphqlOptions)
Run(q, o) ==
  /\ pc = "executor"
  /\ Len(calls) < MaxCalls
  /\ \E co \in {CallerOptions(heap, o)} :
     \E r \in {runQuery(co.h, getContexts, schema, q, co.v)} :
        /\ heap' = r.h
        /\ calls' = Append(calls, r.rec)
        /\ ctxCalls' = LogCalls(r)
  /\ nGetContext' = nGetContext + 1
  /\ UNCHANGED << input, modules, pc, typeDefs, resolvers, getContexts,
                  ctxReturn, schema, nBuild >>

\* executor.subscribe(query, graphqlOptions, callback)
Subscribe(q, o) ==
  /\ pc = "executor"
  /\ Len(calls) < MaxCalls
  /\ \E co \in {CallerOptions(heap, o)} :
     \E r \in {runSubscribe(co.h, getContexts, schema, q, co.v)} :
        /\ heap' = r.h
        /\ calls' = Append(calls, r.rec)
        /\ ctxCalls' = LogCalls(r)
  /\ nGetContext' = nGetContext + 1
  /\ UNCHANGED << input, modules, pc, typeDefs, resolvers, getContexts,
                  ctxReturn, schema, nBuild >>

ExecFrame ==
  UNCHANGED << heap, input, modules, pc, typeDefs, resolvers, getContexts,
               ctxCalls, ctxReturn, nGetContext, schema, nBuild >>

\* the promise execute() returned settles
ExecuteSettles(c) ==
  /\ calls[c].kind = "run" /\ calls[c].st = "pending"
  /\ calls' = [calls EXCEPT ![c].st = "resolved"]
  /\ ExecFrame

\* the promise subscribe() returned resolves with the asynchronous sequence:
\* forAwaitEach starts and asks for the first step
SubscribeResolves(c) ==
  /\ calls[c].kind = "subscribe" /\ calls[c].st = "subscribing"
  /\ calls' = [calls EXCEPT ![c].st = "iterating", ![c].subscribed = "resolved",
                            ![c].seq = "open"]
  /\ ExecFrame

\* the promise subscribe() returned rejects
SubscribeRejects(c) ==
  /\ calls[c].kind = "subscribe" /\ calls[c].st = "subscribing"
  /\ calls' = [calls EXCEPT ![c].st = "rejected", ![c].err = SubscribeError,
                            ![c].subscribed = "rejected"]
  /\ ExecFrame

\* the sequence answers next() with a result
Produce(c) ==
  /\ calls[c].st = "iterating"
  /\ Len(calls[c].produced) < MaxResults
  /\ calls' = [calls EXCEPT
                 ![c].produced = Append(@, ResultValue(c, Len(@) + 1)),
                 ![c].st = "delivering"]
  /\ ExecFrame

\* forAwaitEach receives the step and invokes callback, which may throw
Deliver(c, throws) ==
  /\ calls[c].st = "delivering"
  /\ calls' = [calls EXCEPT ![c] = forAwaitEachStep(calls[c], throws)]
  /\ ExecFrame

\* the sequence answers next() with done
SequenceDone(c) ==
  /\ calls[c].st = "iterating"
  /\ calls' = [calls EXCEPT ![c].st = "resolved", ![c].seq = "done"]
  /\ ExecFrame

\* the sequence answers next() with a rejection
SequenceFails(c) ==
  /\ calls[c].st = "iterating"
  /\ calls' = [calls EXCEPT ![c].st = "rejected", ![c].err = SequenceError,
                            ![c].seq = "failed"]
  /\ ExecFrame

Next ==
  \/ Compile
  \/ \E callerArgs \in CallerArgs : GetContext(callerArgs)
  \/ CreateExecutor

NextExec ==
  \/ Next
  \/ \E q \in Queries, o \in 0..Len(OptionTemplates) : Run(q, o)
  \/ \E q \in Queries, o \in 0..Len(OptionTemplates) : Subscribe(q, o)
  \/ \E c \in 1..Len(calls) : ExecuteSettles(c)
  \/ \E c \in 1..Len(calls) : SubscribeResolves(c)
  \/ \E c \in 1..Len(calls) : SubscribeRejects(c)
  \/ \E c \in 1..Len(calls) : Produce(c)
  \/ \E c \in 1..Len(calls), throws \in BOOLEAN : Deliver(c, throws)
  \/ \E c \in 1..Len(calls) : SequenceDone(c)
  \/ \E c \in 1..Len(calls) : SequenceFails(c)

\* the modules the executor is exercised with
ExecChoice == {2, 5, 11, 12, 13, 14}
InitExec == InitWith(MaxExecModules, ExecChoice)

SpecExec == InitExec /\ [][NextExec]_vars

Spec == Init /\ [][Next]_vars

----------------------------------------------------------------------------
(* Views used to state the properties *)

\* the tree a value stands for in heap h: references unfolded to contents
RECURSIVE Deep(_, _)
Deep(h, x) ==
  IF x.t # "object" THEN [t |-> x.t, v |-> x.v, m |-> EmptyMap]
  ELSE IF h[x.v].class = "Array"
  THEN [t |-> "Array", v |-> Len(h[x.v].p),
        m |-> [k \in {ToString(i) : i \in 1..Len(h[x.v].p)} |->
                 Deep(h, h[x.v].p[CHOOSE i \in 1..Len(h[x.v].p) : ToString(i) = k])]]
  ELSE [t |-> "Object", v |-> 0,
        m |-> [k \in DOMAIN h[x.v].p |-> Deep(h, h[x.v].p[k])]]

\* the module sequence M the caller supplied (a bare descriptor is [d])
M == IF input[modules.v].class = "Array" THEN input[modules.v].p ELSE << modules >>
Bare == input[modules.v].class = "Object"

\* field k of the i-th descriptor as the caller wrote it; Undefined if absent
Field(i, k) ==
  IF k \in DOMAIN input[M[i].v].p THEN input[M[i].v].p[k] ELSE Undefined
Present(i, k) == Field(i, k).t \notin {"undefined", "null"}

\* the indices i of M, ascending, whose field k is present
PresentIdx(k) == SelectSeq([i \in 1..Len(M) |-> i], LAMBDA i : Present(i, k))

\* the value at path <<T>> or <<T, F>> of the i-th module's resolver tree,
\* in heap h; Undefined where the path does not exist
RECURSIVE At(_, _, _)
At(h, x, path) ==
  IF path = << >> THEN x
  ELSE IF x.t = "object" /\ h[x.v].class = "Object" /\ Head(path) \in DOMAIN h[x.v].p
  THEN At(h, h[x.v].p[Head(path)], Tail(path))
  ELSE Undefined

\* whether path exists (every key along it is an own key)
RECURSIVE Has(_, _, _)
Has(h, x, path) ==
  IF path = << >> THEN TRUE
  ELSE /\ x.t = "object" /\ h[x.v].class = "Object"
       /\ Head(path) \in DOMAIN h[x.v].p
       /\ Has(h, h[x.v].p[Head(path)], Tail(path))

IsMapping(h, x) == x.t = "object" /\ h[x.v].class = "Object"
KeysOf(h, x) == IF IsMapping(h, x) THEN DOMAIN h[x.v].p ELSE {}

TypeNames == {"Query", "Mutation"}
FieldNames == {"a", "b"}

Compiled == pc = "compiled"

----------------------------------------------------------------------------
(* Properties of compileGraphqlResources *)

\* C1: compile(M).typeDefs is exactly the sequence of the M[i].schema values
\* in input order with the absent/nil ones removed: order kept, nothing
\* added, and equal fragments supplied more than once all appear.
C1_TypeDefsInOrder ==
  pc # "start" =>
    LET idx == PresentIdx("schema")
    IN /\ isArray(heap, typeDefs)
       /\ Elements(heap, typeDefs) = [j \in 1..Len(idx) |-> Field(idx[j], "schema")]

\* three modules, the middle one without a schema, the outer two equal
C1_Witness ==
  /\ Compiled
  /\ Len(M) = 3
  /\ Present(1, "schema") /\ ~Present(2, "schema") /\ Present(3, "schema")
  /\ Field(1, "schema") = Field(3, "schema")
  /\ Len(Elements(heap, typeDefs)) = 2

\* the i-th module's resolver tree, and the value it holds at a path
ModAt(i, path) == At(input, Field(i, "resolvers"), path)
ModHas(i, path) == Present(i, "resolvers") /\ Has(input, Field(i, "resolvers"), path)

\* the modules that define a resolver function at T.F
FnModules(T, F) == {i \in 1..Len(M) : ModAt(i, << T, F >>).t = "function"}
Max(S) == CHOOSE i \in S : \A j \in S : j <= i

\* module j puts something else where T.F would be: any value at T.F, or a
\* non-mapping at T
Overrides(j, T, F) ==
  \/ ModHas(j, << T, F >>)
  \/ ModHas(j, << T >>) /\ ~IsMapping(input, ModAt(j, << T >>))

\* C3 as stated: if two or more modules define a resolver function at T.F,
\* the compiled T.F is the function of the last such module, whatever other
\* modules lie between or after them.
C3_LastFunctionWins ==
  pc # "start" =>
    \A T \in TypeNames, F \in FieldNames :
      Cardinality(FnModules(T, F)) >= 2 =>
        At(heap, resolvers, << T, F >>) = ModAt(Max(FnModules(T, F)), << T, F >>)

\* C3 amended: ... provided no module after the last such module defines any
\* value at T.F or a non-mapping at T.
C3_LastFunctionWinsUnlessOverridden ==
  pc # "start" =>
    \A T \in TypeNames, F \in FieldNames :
      LET S == FnModules(T, F)
      IN (Cardinality(S) >= 2 /\ \A j \in 1..Len(M) : j > Max(S) => ~Overrides(j, T, F))
         => At(heap, resolvers, << T, F >>) = ModAt(Max(S), << T, F >>)

\* two modules define Query.a as functions, with a module that defines Query
\* differently between them, and the compiled Query.a is the later function
C3_Witness ==
  /\ Compiled
  /\ Len(M) = 3
  /\ FnModules("Query", "a") = {1, 3}
  /\ ModHas(2, << "Query" >>)
  /\ At(heap, resolvers, << "Query", "a" >>) = ResolverFn(3, 1)

ResolverPaths ==
  {<< >>} \cup {<< T >> : T \in TypeNames}
          \cup {<< T, F >> : T \in TypeNames, F \in FieldNames}

ModKeys(i, path) ==
  IF ModHas(i, path) THEN KeysOf(input, ModAt(i, path)) ELSE {}

\* C4 as stated: at every mapping level of the compiled tree the keys are
\* the union of the modules' keys at that level, so fields that several
\* modules contribute under one type name are all kept.
C4_KeysAreUnion ==
  pc # "start" =>
    /\ IsMapping(heap, resolvers)
    /\ \A path \in ResolverPaths :
         IsMapping(heap, At(heap, resolvers, path)) =>
           KeysOf(heap, At(heap, resolvers, path))
             = UNION {ModKeys(i, path) : i \in 1..Len(M)}

\* module i holds a non-mapping at path or at a non-empty prefix of it
Blocks(i, path) ==
  \E n \in 1..Len(path) :
    /\ ModHas(i, SubSeq(path, 1, n))
    /\ ~IsMapping(input, ModAt(i, SubSeq(path, 1, n)))
LastBlock(path) ==
  LET S == {i \in 1..Len(M) : Blocks(i, path)}
  IN IF S = {} THEN 0 ELSE Max(S)

\* the deep-merge rule on trees: union of keys, recursion where both sides
\* are mappings, otherwise the right-hand value
RECURSIVE DeepMerge(_, _)
DeepMerge(l, r) ==
  IF l.t = "Object" /\ r.t = "Object"
  THEN [t |-> "Object", v |-> 0,
        m |-> [k \in DOMAIN l.m \cup DOMAIN r.m |->
                 IF k \in DOMAIN l.m /\ k \in DOMAIN r.m THEN DeepMerge(l.m[k], r.m[k])
                 ELSE IF k \in DOMAIN r.m THEN r.m[k] ELSE l.m[k]]]
  ELSE r
RECURSIVE FoldTrees(_, _)
FoldTrees(i, acc) ==
  IF i > Len(M) THEN acc
  ELSE FoldTrees(i + 1, IF Present(i, "resolvers")
                        THEN DeepMerge(acc, Deep(input, Field(i, "resolvers")))
                        ELSE acc)

\* C4 amended: the compiled tree is the left-to-right deep merge of the
\* present trees from an empty mapping; at every mapping level its keys are
\* the union of the keys that level has in the modules after the last
\* module holding a non-mapping at that level or above it (at the top level,
\* and wherever every module holds mappings, the union over all modules).
C4_KeysAreUnionSinceLastLeaf ==
  pc # "start" =>
    /\ IsMapping(heap, resolvers)
    /\ Deep(heap, resolvers) = FoldTrees(1, [t |-> "Object", v |-> 0, m |-> EmptyMap])
    /\ \A path \in ResolverPaths :
         IsMapping(heap, At(heap, resolvers, path)) =>
           KeysOf(heap, At(heap, resolvers, path))
             = UNION {ModKeys(i, path) : i \in (LastBlock(path) + 1)..Len(M)}

\* two modules contribute different fields under Query, a third has no
\* resolvers, and both fields are in the compiled Query
C4_Witness ==
  /\ Compiled
  /\ Len(M) = 3
  /\ \E i, j, k \in 1..3 :
       /\ ModKeys(i, << "Query" >>) = {"a"}
       /\ ModKeys(j, << "Query" >>) = {"b"}
       /\ ~Present(k, "resolvers")
  /\ KeysOf(heap, At(heap, resolvers, << "Query" >>)) = {"a", "b"}

\* what context function f returns for request r, as a mapping
ReturnProps(f, r) ==
  CASE f.v \in {CtxA, CtxTwo} -> EnvHeap[CtxAObject.v].p
    [] f.v \in {CtxB, CtxZero} -> EnvHeap[CtxBObject.v].p
    [] OTHER -> "req" :> r

\* right-biased shallow merge of the mappings the present context functions
\* return for r, in module order
RECURSIVE MergedContexts(_, _, _)
MergedContexts(idx, r, acc) ==
  IF idx = << >> THEN acc
  ELSE MergedContexts(Tail(idx), r, ReturnProps(Field(Head(idx), "context"), r) @@ acc)

GivenArg(given) == IF given = << >> THEN Undefined ELSE given[1]
Returned == Compiled /\ nGetContext > 0 /\ ~ctxReturn.threw
PropsOf(x) == IF IsMapping(heap, x) THEN heap[x.v].p ELSE EmptyMap
\* the context-function invocations of the latest getContext call
LastGetContext == SelectSeq(ctxCalls, LAMBDA e : e.call = nGetContext)

\* C2: getContext(r) is the right-biased shallow merge, in module order, of
\* the objects each present context function returns for r (a later module's
\* whole value wins on a duplicate key, nested values are never merged);
\* getContext() with no argument passes undefined.
C2_GetContextIsShallowMerge ==
  Returned =>
    /\ IsMapping(heap, ctxReturn.v)
    /\ heap[ctxReturn.v.v].p
         = MergedContexts(PresentIdx("context"), GivenArg(ctxReturn.given), EmptyMap)

\* the same, for modules whose context functions declare at most one
\* parameter: there the merge is as C2 says
C2_HoldsForUnaryContexts ==
  (Returned /\ \A i \in 1..Len(getContexts) : FnLength(getContexts[i]) <= 1) =>
    /\ IsMapping(heap, ctxReturn.v)
    /\ heap[ctxReturn.v.v].p
         = MergedContexts(PresentIdx("context"), GivenArg(ctxReturn.given), EmptyMap)

\* getContext was called on a bundle with a context function that declares
\* two parameters: no context function was invoked and the result is empty
C2_CurriedWitness ==
  /\ Returned
  /\ \E i \in 1..Len(getContexts) : FnLength(getContexts[i]) = 2
  /\ \E i \in 1..Len(getContexts) : getContexts[i].v = CtxA
  /\ LastGetContext = << >>
  /\ PropsOf(ctxReturn.v) = EmptyMap

SameOutcome(x, y) ==
  /\ x.threw = y.threw
  /\ Deep(x.h, x.v) = Deep(y.h, y.v)
  /\ x.calls = y.calls

\* C5: compile(d) for a bare descriptor d yields the same typeDefs, the same
\* resolvers and a getContext with the same results for every argument as
\* compile([d]); createExecutor(d) builds its schema from the same as
\* createExecutor([d]).
C5_BareIsSingleton ==
  (pc \in {"compiled", "executor"} /\ Bare) =>
    \E w \in {Alloc(input, NewArray(<< modules >>))} :
    \E c \in {compileGraphqlResources(w.h, w.v)} :
      /\ Deep(heap, typeDefs) = Deep(c.h, c.typeDefs)
      /\ Deep(heap, resolvers) = Deep(c.h, c.resolvers)
      /\ \A args \in CallerArgs :
           SameOutcome(getContext(heap, getContexts, args),
                       getContext(c.h, c.getContexts, args))
      /\ pc = "executor" =>
           \E s \in {makeExecutableSchema(c.h, c.typeDefs, c.resolvers)} :
             \A k \in {"typeDefs", "resolvers"} :
               Deep(heap, heap[schema.v].p[k]) = Deep(s.h, s.h[s.v.v].p[k])

\* a bare descriptor with a schema, resolvers and a context was compiled
C5_Witness ==
  /\ Compiled /\ Bare
  /\ Present(1, "schema") /\ Present(1, "resolvers") /\ Present(1, "context")
  /\ Len(Elements(heap, typeDefs)) = 1
  /\ nGetContext > 0

\* C10: compile never mutates its input: after compile(M) and any number of
\* getContext calls, every object the caller built (the module sequence,
\* the descriptors, the resolver trees at every level) has exactly the keys
\* and values it had before.
C10_InputUnchanged ==
  /\ Len(heap) >= Len(input)
  /\ \A a \in 1..Len(input) : heap[a] = input[a]

\* two modules' trees share the type name Query and were merged, and
\* getContext was called twice
C10_Witness ==
  /\ Compiled
  /\ nGetContext = 2
  /\ Len(M) >= 2
  /\ ModKeys(1, << "Query" >>) # {} /\ ModKeys(2, << "Query" >>) # {}
  /\ KeysOf(heap, At(heap, resolvers, << "Query" >>)) = {"a", "b"}
  /\ Len(getContexts) >= 1

----------------------------------------------------------------------------
(* Properties of createExecutor *)

Invoked(c) == calls[c].passed # Undefined
PassedProps(c) == heap[calls[c].passed.v].p
GivenProps(c) == calls[c].optionsWas.p
GivenOption(c, k) == IF k \in DOMAIN GivenProps(c) THEN GivenProps(c)[k] ELSE Undefined

\* C6: in every run or subscribe call the contextValue handed to the
\* execution collaborator is the shallow merge of options.contextValue first
\* and getContext(options.contextArg) second: it has every key of both, the
\* module-derived value wins on a shared key, and with options omitted it
\* is exactly getContext(undefined).
C6_ContextValueMerge ==
  \A c \in 1..Len(calls) :
    Invoked(c) =>
      LET explicit == PropsOf(GivenOption(c, "contextValue"))
          derived == PropsOf(calls[c].ctx)
          handed == PassedProps(c)["contextValue"]
      IN /\ IsMapping(heap, handed)
         /\ DOMAIN PropsOf(handed) = DOMAIN explicit \cup DOMAIN derived
         /\ \A k \in DOMAIN PropsOf(handed) :
              PropsOf(handed)[k] = IF k \in DOMAIN derived THEN derived[k] ELSE explicit[k]
         /\ \A i \in 1..Len(calls[c].contextCalls) :
              calls[c].contextCalls[i].args = << GivenOption(c, "contextArg") >>
         /\ calls[c].options = Undefined => PropsOf(handed) = derived

\* a call whose explicit contextValue and module context share the key
\* "user" and differ on it; the collaborator got the module's value and the
\* explicit "yet"
C6_Witness ==
  \E c \in 1..Len(calls) :
    /\ Invoked(c)
    /\ "user" \in DOMAIN PropsOf(GivenOption(c, "contextValue"))
    /\ "user" \in DOMAIN PropsOf(calls[c].ctx)
    /\ "yet" \notin DOMAIN PropsOf(calls[c].ctx)
    /\ PropsOf(PassedProps(c)["contextValue"])["user"] = Str(1)
    /\ PropsOf(PassedProps(c)["contextValue"])["yet"] = Str(31)

PassThrough == {"rootValue", "operationName", "variableValues"}

\* C7: in every run or subscribe call rootValue, operationName and
\* variableValues reach the collaborator as given in options, the schema and
\* document it receives are the executor's own schema and the parse of the
\* query text, and the caller's options object is not modified.
C7_OptionsPassThrough ==
  \A c \in 1..Len(calls) :
    /\ Invoked(c) =>
         /\ \A k \in PassThrough :
              /\ k \in DOMAIN PassedProps(c) <=> k \in DOMAIN GivenProps(c)
              /\ k \in DOMAIN PassedProps(c) => PassedProps(c)[k] = GivenProps(c)[k]
         /\ PassedProps(c)["schema"] = schema
         /\ PassedProps(c)["document"] = parse(calls[c].query).v
         /\ calls[c].passed # calls[c].options
    /\ calls[c].options # Undefined => heap[calls[c].options.v] = calls[c].optionsWas

\* the collaborator was invoked for a call whose options carry a schema and
\* a document of their own besides a rootValue
C7_Witness ==
  \E c \in 1..Len(calls) :
    /\ Invoked(c)
    /\ {"schema", "document", "rootValue"} \subseteq DOMAIN GivenProps(c)
    /\ PassedProps(c)["rootValue"] = Str(44)

IsPrefix(s, t) == Len(s) <= Len(t) /\ s = SubSeq(t, 1, Len(s))

\* C8: subscribe invokes callback exactly once for each result the sequence
\* produces, in arrival order, none skipped or repeated; its promise
\* resolves only after the sequence has completed and every callback has
\* been invoked, and rejects if the collaborator rejects.
C8_CallbackPerResult ==
  \A c \in 1..Len(calls) :
    calls[c].kind = "subscribe" =>
      /\ IsPrefix(calls[c].delivered, calls[c].produced)
      /\ calls[c].st # "delivering" => calls[c].delivered = calls[c].produced
      /\ calls[c].st = "delivering" =>
           Len(calls[c].produced) = Len(calls[c].delivered) + 1
      /\ calls[c].st = "resolved" =>
           calls[c].seq = "done" /\ calls[c].delivered = calls[c].produced
      /\ calls[c].subscribed = "rejected" =>
           calls[c].st = "rejected" /\ calls[c].err = SubscribeError
             /\ calls[c].delivered = << >>

\* a subscription whose sequence produced two results and completed
C8_Witness ==
  \E c \in 1..Len(calls) :
    /\ calls[c].kind = "subscribe"
    /\ calls[c].st = "resolved"
    /\ Len(calls[c].produced) = 2
    /\ calls[c].delivered = << ResultValue(c, 1), ResultValue(c, 2) >>

\* the context function that raises was invoked in this list of invocations
Raised(log) == \E i \in 1..Len(log) : log[i].fn.v = CtxThrow

\* C9: an error raised by a context function (in getContext, run or
\* subscribe) or by the parser on malformed query text (in run or subscribe)
\* reaches the caller as that same error, not caught, wrapped or retried,
\* and for that call the collaborator is never invoked.
C9_ErrorsPropagate ==
  /\ \A c \in 1..Len(calls) :
       LET log == calls[c].contextCalls
       IN /\ Raised(log) =>
               /\ calls[c].st = "threw" /\ calls[c].err = ContextError
               /\ log[Len(log)].fn.v = CtxThrow
               /\ \A i \in 1..(Len(log) - 1) : log[i].fn.v # CtxThrow
          /\ (~Raised(log) /\ calls[c].query = BadQuery) =>
               calls[c].st = "threw" /\ calls[c].err = ParseError
          /\ calls[c].st = "threw" =>
               /\ ~Invoked(c)
               /\ calls[c].subscribed = "none" /\ calls[c].seq = "none"
               /\ Raised(log) \/ calls[c].query = BadQuery
          /\ Len(log) <= Len(getContexts)
  /\ (Compiled /\ nGetContext > 0) =>
       /\ Raised(LastGetContext) <=> ctxReturn.threw
       /\ ctxReturn.threw => ctxReturn.v = ContextError
       /\ Len(LastGetContext) <= Len(getContexts)

\* a subscribe call in which the second module's context function raised
C9_Witness ==
  \E c \in 1..Len(calls) :
    /\ calls[c].kind = "subscribe"
    /\ calls[c].st = "threw"
    /\ calls[c].err = ContextError
    /\ Len(calls[c].contextCalls) = 2

\* a run call on malformed query text after the context functions returned
C9_ParseWitness ==
  \E c \in 1..Len(calls) :
    /\ calls[c].kind = "run"
    /\ calls[c].st = "threw"
    /\ calls[c].err = ParseError
    /\ Len(calls[c].contextCalls) >= 1

\* what getOptions yields for call c's own query and options, computed apart
\* from every other call
Alone(c) == getOptions(heap, getContexts, schema, calls[c].query, calls[c].options)

\* C11: for any interleaving of run and subscribe calls on one executor, every
\* call hands the collaborator the single schema built once at construction
\* (the schema builder is invoked once and never again), and what a call
\* hands over, or throws, is what its own query and options alone give,
\* whatever other calls are in flight or finished; no two calls share an
\* options object or a contextValue object.
C11_SchemaOnceCallsIndependent ==
  /\ nBuild = (IF pc \in {"executor", "failed"} THEN 1 ELSE 0)
  /\ calls # << >> => pc = "executor"
  /\ \A c \in 1..Len(calls) :
       /\ Invoked(c) => PassedProps(c)["schema"] = schema
       /\ \E o \in {Alone(c)} :
            /\ o.threw = (calls[c].st = "threw")
            /\ o.calls = calls[c].contextCalls
            /\ o.threw => o.v = calls[c].err
            /\ ~o.threw => Deep(o.h, o.v) = Deep(heap, calls[c].passed)
       /\ \A d \in 1..Len(calls) :
            (c # d /\ Invoked(c) /\ Invoked(d)) =>
              /\ calls[c].passed # calls[d].passed
              /\ PassedProps(c)["contextValue"] # PassedProps(d)["contextValue"]

\* a subscription is delivering a result when a run call with other options
\* and another query outcome has been made and handed the same schema
C11_Witness ==
  /\ Len(calls) = 2
  /\ calls[1].kind = "subscribe" /\ calls[1].st = "delivering"
  /\ calls[2].kind = "run" /\ Invoked(2)
  /\ calls[1].options = Undefined /\ calls[2].options # Undefined
  /\ PassedProps(1)["schema"] = PassedProps(2)["schema"]
  /\ PropsOf(PassedProps(1)["contextValue"]) # PropsOf(PassedProps(2)["contextValue"])
  /\ nBuild = 1

\* the context functions of the descriptors that have one, in descriptor order
PresentContexts ==
  [j \in 1..Len(PresentIdx("context")) |-> Field(PresentIdx("context")[j], "context")]

\* the invocations a getContext(arg) call is to make: every present context
\* function once, in descriptor order, each with the one argument arg
ExpectedInvocations(given) ==
  [j \in 1..Len(PresentContexts) |->
     [call |-> nGetContext, fn |-> PresentContexts[j], args |-> << GivenArg(given) >>]]

\* C12: every getContext(arg) call invokes each present context function
\* exactly once, in descriptor order, each with that same single argument,
\* whatever number of parameters the context functions declare; no context
\* function is invoked at compile time or for a descriptor that has none.
C12_EachContextInvokedOnce ==
  /\ nGetContext = 0 => ctxCalls = << >>
  /\ Returned => LastGetContext = ExpectedInvocations(ctxReturn.given)

\* the same, for bundles whose context functions declare at most one
\* parameter
C12_HoldsForUnaryContexts ==
  /\ nGetContext = 0 => ctxCalls = << >>
  /\ (Returned /\ \A j \in 1..Len(PresentContexts) : FnLength(PresentContexts[j]) <= 1)
       => LastGetContext = ExpectedInvocations(ctxReturn.given)

\* getContext(r) was called with an argument on a bundle of three
\* descriptors, one without a context function and one whose context
\* function declares two parameters, and it returned having invoked none
C12_NoneInvokedWitness ==
  /\ Returned
  /\ ctxReturn.given = << Str(7) >>
  /\ Len(M) = 3 /\ Len(PresentContexts) = 2
  /\ \E j \in 1..2 : FnLength(PresentContexts[j]) = 2
  /\ LastGetContext = << >>

\* getContext() was called on a bundle whose two context functions declare
\* one parameter and none, and both were invoked in order with undefined
C12_UnaryWitness ==
  /\ Returned
  /\ ctxReturn.given = << >>
  /\ Len(PresentContexts) = 2
  /\ PresentContexts[1].v = CtxA /\ PresentContexts[2].v = CtxZero
  /\ LastGetContext = ExpectedInvocations(<< >>)

====
